---- MODULE Spec2Model ----
(***************************************************************************)
(* The Ask-AI pipeline of backend/main.py: the two endpoints ask_ai        *)
(* (batch) and ask_ai_stream (streaming), the content fetcher              *)
(* fetch_url_content they call, and the external collaborators (HTTP       *)
(* fetch target, search provider, model provider) as nondeterministic      *)
(* outcomes.  A request is one thread of the server; the steps of a        *)
(* request are cut at its external calls.  The users table of the SQLite  *)
(* database and the endpoints that read and write it are modelled too.    *)
(***************************************************************************)
EXTENDS Integers, Sequences, FiniteSets, TLC

VARIABLES
    client,         \* module-level OpenAI client: TRUE = configured, FALSE = None
    pc,             \* per request: position in the handler
    request,        \* per request: the AskAIRequest body and the endpoint it hit
    urls,           \* per request: re.findall result
    results,        \* per request: list(ddgs.text(...))
    idx,            \* per request: position of the running for-loop
    sources,        \* per request: the list `sources`
    url_context,    \* per request: the accumulator `url_context`
    search_context, \* per request: the accumulator `search_context`
    user_content,   \* per request: the user prompt
    system_prompt,  \* per request: the system prompt
    out,            \* per request: what the caller received so far
    calls,          \* per request: the external calls made, in order, with outcomes
    provider,       \* per request: what the model provider did for this request
    users,          \* the rows of table `users`, by primary key `id`
    resp,           \* the last request to a users endpoint and its response
    message_reactions, \* the rows of table `message_reactions`
    password_resets,   \* the rows of table `password_resets`, by `token`
    groups,         \* the rows of table `groups`, by primary key `id`
    group_members,  \* the rows of table `group_members`: [group_id, user_id]
    messages,       \* the rows of table `messages`: [id, group_id]
    threads,        \* the rows of table `threads`: [id, group_id]
    invitations,    \* the rows of table `invitations`, by `token`
    uuid,           \* how many values uuid.uuid4() has produced for these tables
    gresp,          \* the last request to a groups endpoint and its response
    th              \* per server thread: the handler it runs and the handler's locals

askvars == <<client, pc, request, urls, results, idx, sources, url_context,
             search_context, user_content, system_prompt, out, calls, provider>>

uservars == <<users, resp>>

groupvars == <<groups, group_members, messages, threads, invitations, uuid, gresp>>

(* everything the Ask-AI pipeline neither reads nor writes *)
dbvars == <<uservars, message_reactions, password_resets, groupvars, th>>

vars == <<askvars, dbvars>>

-----------------------------------------------------------------------------
(* Bounds of the model *)

MaxSegs == 2        \* a question is made of at most this many segments
MaxResults == 2     \* the search provider returns at most this many results
MaxChunks == 2      \* a model response has at most this many increments
MaxEmails == 1      \* this many e-mail addresses sign up
MaxUuids == 3       \* uuid.uuid4() is called at most this many times for rows

Reqs == {"r1", "r2"}

-----------------------------------------------------------------------------
(* Text: a question is a sequence of one-character strings *)

RECURSIVE Str(_)
Str(s) == IF s = <<>> THEN "" ELSE s[1] \o Str(Tail(s))

RECURSIVE Flatten(_)
Flatten(ss) == IF ss = <<>> THEN <<>> ELSE ss[1] \o Flatten(Tail(ss))

RECURSIVE Concat(_)
Concat(strs) == IF strs = <<>> THEN "" ELSE strs[1] \o Concat(Tail(strs))

Min(a, b) == IF a < b THEN a ELSE b

SeqsUpTo(S, n) == UNION {[1..k -> S] : k \in 0..n}

Segments ==
    { <<"q"," ","h","t","t","p",":","/","/"," ">>,
      <<"h","t","t","p",":","/","/","a","%","4","f","%","q"," ">>,
      <<"h","t","t","p","s",":","/","/","b",".","c","/","p"," ">> }

Questions == {Flatten(ss) : ss \in (SeqsUpTo(Segments, MaxSegs) \ {<<>>})}

Contexts == {"", "earlier"}

(* the characters of the alphabet above that Python's \w matches *)
WordChars == {"h", "t", "p", "s", "a", "b", "c", "q", "f", "4"}
HexChars == {"a", "b", "c", "f", "4"}

IsHostChar(c) == c \in WordChars \cup {"-", "."}

(* `https?://` at position i: the position after it, or 0 *)
SchemeEnd(s, i) ==
    IF i + 3 <= Len(s) /\ SubSeq(s, i, i + 3) = <<"h","t","t","p">>
    THEN IF i + 7 <= Len(s) /\ SubSeq(s, i + 4, i + 7) = <<"s",":","/","/">>
         THEN i + 8
         ELSE IF i + 6 <= Len(s) /\ SubSeq(s, i + 4, i + 6) = <<":","/","/">>
              THEN i + 7
              ELSE 0
    ELSE 0

(* greedy `(?:[-\w.]|(?:%[\da-fA-F]{2}))*` from j: the first position not consumed *)
RECURSIVE HostEnd(_, _)
HostEnd(s, j) ==
    IF j <= Len(s) /\ IsHostChar(s[j])
    THEN HostEnd(s, j + 1)
    ELSE IF j + 2 <= Len(s) /\ s[j] = "%" /\ s[j + 1] \in HexChars /\ s[j + 2] \in HexChars
         THEN HostEnd(s, j + 3)
         ELSE j

(* the whole pattern at position i: the position after the match, or 0 *)
MatchEnd(s, i) ==
    LET k == SchemeEnd(s, i)
    IN  IF k = 0 THEN 0
        ELSE IF HostEnd(s, k) > k THEN HostEnd(s, k) ELSE 0

RECURSIVE FindAllFrom(_, _)
FindAllFrom(s, i) ==
    IF i > Len(s) THEN <<>>
    ELSE LET e == MatchEnd(s, i)
         IN  IF e = 0 THEN FindAllFrom(s, i + 1)
             ELSE <<Str(SubSeq(s, i, e - 1))>> \o FindAllFrom(s, e)

re_findall(s) == FindAllFrom(s, 1)

-----------------------------------------------------------------------------
(* The content fetcher *)

FetchCap == 8000
UrlExcerptCap == 3000
SearchExcerptCap == 2500

PageLens == {2000, 9000}

(* the length of a URL the server redirects to; str(e) of the HTTPError of *)
(* raise_for_status ends with the URL of the response                      *)
LongUrlLen == 9000

(* what the HTTP GET of one URL does: a 2xx page of some visible-text length, *)
(* a non-2xx status (raise_for_status raises), or a transport error; `err`   *)
(* abbreviates str(e) and `msglen` is its length                             *)
FetchOutcomes ==
    {[status |-> "ok", len |-> n, err |-> "", msglen |-> 0] : n \in PageLens}
    \cup {[status |-> "http_error", len |-> 0, err |-> "404 Client Error",
           msglen |-> LongUrlLen + Len("404 Client Error: Not Found for url: ")],
          [status |-> "transport_error", len |-> 0, err |-> "timed out",
           msglen |-> Len("timed out")]}

(* a text value: what it is and how many characters it has *)
Text(body, n) == [body |-> body, len |-> n]

(* text[:n] *)
Slice(text, n) == [text EXCEPT !.len = Min(@, n)]

(* a call that returned v; `raised` is what the caller's try/except tests *)
Returned(v) == [raised |-> FALSE, value |-> v]

fetch_url_content_Raises(url, o) ==
    IF o.status = "ok"
    THEN Returned(Slice(Text("page of " \o url, o.len), FetchCap))
    ELSE [raised |-> TRUE, value |-> Text(o.err, o.msglen)]

(* requests.get, raise_for_status and the parse, all inside `try`; the *)
(* `except` returns the message as the content                         *)
fetch_url_content(url, o) ==
    IF o.status = "ok"
    THEN Returned(Slice(Text("page of " \o url, o.len), FetchCap))
    ELSE Returned(Text("failed to fetch URL content: " \o o.err,
                       Len("failed to fetch URL content: ") + o.msglen))

-----------------------------------------------------------------------------
(* The search provider and the model provider *)

SearchMaxResults_Doubled == 2 * 5

SearchMaxResults == 5

(* dicts as the provider returns them; a key may be missing *)
RawResults ==
    { [href |-> "http://r1", title |-> "T1", body |-> "S1"],
      [href |-> "http://r2", body |-> ""] }

Get(d, k, default) == IF k \in DOMAIN d THEN d[k] ELSE default

(* what ddgs.text(query, max_results) does: raises, or returns ranked results *)
SearchOutcomes(max_results, E) ==
    {[raised |-> TRUE, results |-> <<>>]}
    \cup {[raised |-> FALSE, results |-> rs] :
             rs \in SeqsUpTo(E.results, Min(max_results, E.maxResults))}

(* one increment of a model response: delta.content, which may be None *)
Increments ==
    { [isNone |-> FALSE, text |-> "A"],
      [isNone |-> FALSE, text |-> "B"],
      [isNone |-> TRUE, text |-> ""] }

ModelErrors == {"Connection error."}

(* what the provider does for one request: the increments it produced and *)
(* whether it then failed instead of completing                          *)
ProviderBehaviours(E) ==
    {[incs |-> i, failed |-> FALSE, err |-> ""] : i \in SeqsUpTo(E.increments, E.maxChunks)}
    \cup {[incs |-> i, failed |-> TRUE, err |-> e] :
              i \in SeqsUpTo(E.increments, E.maxChunks), e \in ModelErrors}

NoProvider == [incs |-> <<>>, failed |-> FALSE, err |-> ""]

RECURSIVE MessageContent(_)
(* message.content of the whole response, a str: its non-null increments joined *)
MessageContent(incs) ==
    IF incs = <<>> THEN ""
    ELSE (IF incs[1].isNone THEN "" ELSE incs[1].text) \o MessageContent(Tail(incs))

-----------------------------------------------------------------------------
(* Prompts and citation block *)

SystemPromptBase == "You are ChatGPT, a large language model trained by OpenAI. ..."
UrlInstruction == "\n\nYou have been provided with web content from URLs. ..."
SearchInstruction == "\n\nYou have been provided with the latest web search results. ..."
UrlHeader == "\n\n--- Web Content from URLs ---\n"
SearchHeader == "\n\n--- Web Search Results (Latest Information) ---\n"
ConfigError == "Error: OpenAI API key not configured. Please set OPENAI_API_KEY in your .env file."

TextPart_Stamped(s) ==
    [t |-> "text", text |-> s \o ToString(Len(calls["r1"]) + Len(calls["r2"]))]

(* a piece of prompt text that is not an evidence paragraph *)
TextPart(s) == [t |-> "text", text |-> s]

(* user_content before any evidence is added *)
InitialUserContent(q, ctx) ==
    IF ctx # ""
    THEN <<TextPart("Previous conversation context:\n" \o ctx
                    \o "\n\nUser question: " \o Str(q))>>
    ELSE <<TextPart(Str(q))>>

(* f"\n[Source: {url}]\n{content[:3000]}\n" *)
UrlEvidence(url, content) ==
    [t |-> "url_source", url |-> url, content |-> Slice(content, UrlExcerptCap)]

SearchEvidence_ZeroBased(i, title, url, content) ==
    [t |-> "search_source", idx |-> i - 1, title |-> title, url |-> url,
     label |-> "Content", content |-> Slice(content, SearchExcerptCap)]

(* f"\n[Source {idx}: {title}]({url})\nContent: {content[:2500]}\n" *)
SearchEvidence(i, title, url, content) ==
    [t |-> "search_source", idx |-> i, title |-> title, url |-> url,
     label |-> "Content", content |-> Slice(content, SearchExcerptCap)]

(* f"\n[Source {idx}: {title}]({url})\nSnippet: {snippet}\n" *)
SnippetEvidence(i, title, url, snippet) ==
    [t |-> "search_source", idx |-> i, title |-> title, url |-> url,
     label |-> "Snippet", content |-> Text(snippet, Len(snippet))]

SourceItems_Dedup(srcs) ==
    Concat([i \in 1..Len(srcs) |->
               IF \E j \in 1..(i - 1) : srcs[j] = srcs[i] THEN ""
               ELSE "- [" \o srcs[i].title \o "](" \o srcs[i].url \o ")\n"])

RECURSIVE SourceItems(_)
SourceItems(srcs) ==
    IF srcs = <<>> THEN ""
    ELSE "- [" \o srcs[1].title \o "](" \o srcs[1].url \o ")\n" \o SourceItems(Tail(srcs))

sources_text(srcs) == "\n\n**Sources:**\n" \o SourceItems(srcs)

BatchSuffix_Never(srcs) == ""

BatchSuffix_Always(srcs) == sources_text(srcs)

(* ask_ai: `if sources: ... content += sources_text` *)
BatchSuffix(srcs) == IF srcs # <<>> THEN sources_text(srcs) ELSE ""

StreamSuffix_NoHeader(srcs) == IF srcs # <<>> THEN <<SourceItems(srcs)>> ELSE <<>>

(* event_generator: `if sources: ... yield sources_text` *)
StreamSuffix(srcs) == IF srcs # <<>> THEN <<sources_text(srcs)>> ELSE <<>>

EvidenceMode_SearchFirst(us) == "search"

(* `if urls:` ... `else:` *)
EvidenceMode(us) == IF us # <<>> THEN "url_loop" ELSE "search"

SearchNext_Uncaught(o) ==
    IF o.raised THEN "raised"
    ELSE IF o.results # <<>> THEN "result_loop" ELSE "invoke"

(* where the search branch continues: `except Exception` around the search, *)
(* `if results:`                                                            *)
SearchNext(o) ==
    IF o.raised THEN "invoke"
    ELSE IF o.results # <<>> THEN "result_loop" ELSE "invoke"

sources_append_Shared(all, r, items) == [x \in Reqs |-> all[x] \o items]

(* `sources.append(...)`: `sources` is a local of the running handler *)
sources_append(all, r, items) == [all EXCEPT ![r] = @ \o items]

ResultSource_NeedsSnippet(url, title, snippet) ==
    IF snippet # "" THEN <<[url |-> url, title |-> title]>> ELSE <<>>

(* `sources.append({"url": url, "title": title})` at the end of the loop body *)
ResultSource(url, title, snippet) == <<[url |-> url, title |-> title]>>

MoreItems_StopAfterFirst(i, items) == FALSE

(* whether the for-loop over `items` has an iteration after the i-th *)
MoreItems(i, items) == i < Len(items)

NotConfiguredReply_Cited(srcs) == <<ConfigError \o BatchSuffix(srcs)>>

(* `if not client:` return (yield) the configuration error, and nothing else *)
NotConfiguredReply(srcs) == <<ConfigError>>

Yielded_NullAsEmpty(c) == <<c.text>>

(* `if chunk.choices[0].delta.content is not None: yield content` *)
Yielded(c) == IF c.isNone THEN <<>> ELSE <<c.text>>

OuterExcept_Retry(e) == [pc |-> "invoke", emit |-> <<>>]

OuterExcept_Reraise(e) == [pc |-> "raised", emit |-> <<>>]

(* the outer `except Exception as e` of both endpoints *)
OuterExcept(e) == [pc |-> "done", emit |-> <<"Error calling OpenAI: " \o e>>]

-----------------------------------------------------------------------------
(* Table `users` *)

(* Python's None and NULL of SQLite, among the strings *)
None == "None"

(* `not v` for an Optional[str] *)
Falsy(v) == v \in {None, ""}

(* CREATE TABLE users (id, name, email, avatar, status), then ADD COLUMN password *)
UsersColumns == 5 + 1

InsertAccepted_AnyCount(n) == TRUE

(* `INSERT INTO users VALUES (?, ..)` with n values and no column list *)
InsertAccepted(n) == n = UsersColumns

(* the rows init_db seeds into an empty table *)
SeedUsers ==
    [id \in {"user-1", "ai-agent"} |->
        [name |-> IF id = "user-1" THEN "You" ELSE "ChatGPT",
         email |-> IF id = "user-1" THEN "you@example.com" ELSE "ai@sidechat.com",
         avatar |-> None, status |-> "online", password |-> None]]

Emails == {"e" \o ToString(i) \o "@x.org" : i \in 1..MaxEmails}

(* the values of f"user-{uuid.uuid4()}" *)
NewIds == {"user-uuid" \o ToString(i) : i \in 1..MaxEmails}

(* the ids the endpoints are called with: the seeded human user and the *)
(* accounts that sign up                                                *)
UserIds == {"user-1"} \cup NewIds

(* `SELECT .. FROM users WHERE email = ?` *)
ByEmail(table, email) == {id \in DOMAIN table : table[id].email = email}

(* `INSERT INTO users (..) VALUES (..)` of a row with a new primary key *)
Insert(table, id, row) ==
    [u \in DOMAIN table \cup {id} |-> IF u = id THEN row ELSE table[u]]

(* the avatar register gives a new account *)
Dicebear(email) == "https://api.dicebear.com/7.x/avataaars/svg?seed=" \o email

(* f"http://localhost:8000/uploads/avatars/avatar_{user_id}_{uuid}.{ext}" *)
AvatarUrl(user_id, file) ==
    "http://localhost:8000/uploads/avatars/avatar_" \o user_id \o "_" \o file.uuid \o "." \o file.ext

Files ==
    { [content_type |-> "image/png", size |-> 1024, uuid |-> "f1", ext |-> "png"],
      [content_type |-> "text/plain", size |-> 1024, uuid |-> "f1", ext |-> "txt"],
      [content_type |-> "image/png", size |-> 3 * 1024 * 1024, uuid |-> "f1", ext |-> "png"] }

SetClause_NameOnly(row, data) ==
    [row EXCEPT !.name = IF data.name # None THEN data.name ELSE @]

(* update_user: the `UPDATE users SET ..` built from the fields that are not None *)
SetClause(row, data) ==
    [row EXCEPT !.name = IF data.name # None THEN data.name ELSE @,
                !.avatar = IF data.avatar # None THEN data.avatar ELSE @]

(* a request to a users endpoint and what it answered *)
Response(op, id, code, status, avatar, set) ==
    [op |-> op, id |-> id, code |-> code, status |-> status, avatar |-> avatar, set |-> set]

-----------------------------------------------------------------------------
(* The other tables *)

(* a table without rows, by key *)
NoRows == [k \in {} |-> None]

(* the group init_db seeds, and its two members *)
SeedGroups == [id \in {"group-1"} |-> [name |-> "General", owner_id |-> "user-1", type |-> "group"]]

SeedMembers ==
    {[group_id |-> "group-1", user_id |-> "user-1"],
     [group_id |-> "group-1", user_id |-> "ai-agent"]}

(* the server threads that run the handlers of concurrent requests *)
Threads == {"t1", "t2"}

Idle == [pc |-> "idle", op |-> "none", status |-> "", id |-> None]

(* the n-th value of str(uuid.uuid4()) *)
uuid4(n) == "uuid-" \o ToString(n)

(* a request to a groups endpoint and what it answered *)
GroupResponse(op, code, detail, group_id, user_id, user2_id, token) ==
    [op |-> op, code |-> code, detail |-> detail, group_id |-> group_id,
     user_id |-> user_id, user2_id |-> user2_id, token |-> token]

(* the rows of a table that are of group g *)
OfGroup(rows, g) == {x \in rows : x.group_id = g}

WithoutGroup_Kept(rows, g) == rows

(* `DELETE FROM <table> WHERE group_id = ?` *)
WithoutGroup(rows, g) == rows \ OfGroup(rows, g)

(* `INSERT INTO group_members ..`: PRIMARY KEY (group_id, user_id) *)
InsertMember(rows, row) ==
    IF row \in rows THEN [raised |-> TRUE, rows |-> rows]
    ELSE [raised |-> FALSE, rows |-> rows \cup {row}]

InsertOrIgnore_Plain(rows, row) == InsertMember(rows, row)

(* `INSERT OR IGNORE INTO group_members ..` *)
InsertOrIgnore(rows, row) == [raised |-> FALSE, rows |-> rows \cup {row}]

Member(g, u) == [group_id |-> g, user_id |-> u]

(* the groups create_dm's query selects: both users are members and the *)
(* group has exactly two member rows                                    *)
ExistingDm(u1, u2, grps, members) ==
    {g \in DOMAIN grps :
        /\ Member(g, u1) \in members
        /\ Member(g, u2) \in members
        /\ Cardinality(OfGroup(members, g)) = 2}

-----------------------------------------------------------------------------
(* State after start-up: the client is configured or not; no request yet *)

Init ==
    /\ client \in BOOLEAN
    /\ pc = [r \in Reqs |-> "idle"]
    /\ request = [r \in Reqs |-> [question |-> <<>>, chatContext |-> "", stream |-> FALSE]]
    /\ urls = [r \in Reqs |-> <<>>]
    /\ results = [r \in Reqs |-> <<>>]
    /\ idx = [r \in Reqs |-> 0]
    /\ sources = [r \in Reqs |-> <<>>]
    /\ url_context = [r \in Reqs |-> <<>>]
    /\ search_context = [r \in Reqs |-> <<>>]
    /\ user_content = [r \in Reqs |-> <<>>]
    /\ system_prompt = [r \in Reqs |-> <<>>]
    /\ out = [r \in Reqs |-> <<>>]
    /\ calls = [r \in Reqs |-> <<>>]
    /\ provider = [r \in Reqs |-> NoProvider]
    /\ users = SeedUsers
    /\ resp = Response("none", None, 0, "", None, None)
    /\ message_reactions = {}
    /\ password_resets = NoRows
    /\ groups = SeedGroups
    /\ group_members = SeedMembers
    /\ messages = {}
    /\ threads = {}
    /\ invitations = NoRows
    /\ uuid = 0
    /\ gresp = GroupResponse("none", 0, "", None, None, None, None)
    /\ th = [t \in Threads |-> Idle]

(* the common head of both handlers, up to the `if urls:` branch *)
Begin(r, q, ctx, stream) ==
    /\ pc[r] = "idle"
    /\ request' = [request EXCEPT ![r] = [question |-> q, chatContext |-> ctx, stream |-> stream]]
    /\ urls' = [urls EXCEPT ![r] = re_findall(q)]
    /\ system_prompt' = [system_prompt EXCEPT ![r] = <<SystemPromptBase>>]
    /\ user_content' = [user_content EXCEPT ![r] = InitialUserContent(q, ctx)]
    /\ sources' = [sources EXCEPT ![r] = <<>>]
    /\ pc' = [pc EXCEPT ![r] = EvidenceMode(re_findall(q))]
    /\ IF pc'[r] = "url_loop"
       THEN /\ url_context' = [url_context EXCEPT ![r] = <<TextPart(UrlHeader)>>]
            /\ idx' = [idx EXCEPT ![r] = 1]
       ELSE UNCHANGED <<url_context, idx>>
    /\ UNCHANGED <<dbvars, client, results, search_context, out, calls, provider>>

(* POST /ask-ai *)
ask_ai(r, E) ==
    \E q \in E.questions, ctx \in E.contexts : Begin(r, q, ctx, FALSE)

(* POST /ask-ai-stream *)
ask_ai_stream(r, E) ==
    \E q \in E.questions, ctx \in E.contexts : Begin(r, q, ctx, TRUE)

(* one iteration of `for url in urls`, and the two statements after the loop *)
FetchUrl(r, E) ==
    /\ pc[r] = "url_loop"
    /\ \E o \in E.fetches :
          LET url == urls[r][idx[r]]
              res == fetch_url_content(url, o)
              ctx2 == IF res.raised THEN url_context[r]
                      ELSE Append(url_context[r], UrlEvidence(url, res.value))
          IN  /\ calls' = [calls EXCEPT ![r] =
                               Append(@, [kind |-> "fetch", pos |-> idx[r], url |-> url,
                                          outcome |-> o, raised |-> res.raised])]
              /\ url_context' = [url_context EXCEPT ![r] = ctx2]
              /\ sources' = sources_append(sources, r,
                               IF res.raised THEN <<>> ELSE <<[url |-> url, title |-> url]>>)
              /\ IF MoreItems(idx[r], urls[r])
                 THEN /\ idx' = [idx EXCEPT ![r] = @ + 1]
                      /\ UNCHANGED <<pc, user_content, system_prompt>>
                 ELSE /\ user_content' = [user_content EXCEPT ![r] = @ \o ctx2]
                      /\ system_prompt' = [system_prompt EXCEPT ![r] = Append(@, UrlInstruction)]
                      /\ pc' = [pc EXCEPT ![r] = "invoke"]
                      /\ UNCHANGED idx
    /\ UNCHANGED <<dbvars, client, request, urls, results, search_context, out, provider>>

(* `results = list(ddgs.text(request.question, max_results=5))` inside its try *)
Search(r, E) ==
    /\ pc[r] = "search"
    /\ \E o \in SearchOutcomes(SearchMaxResults, E) :
          /\ calls' = [calls EXCEPT ![r] =
                           Append(@, [kind |-> "search", query |-> Str(request[r].question),
                                      max_results |-> SearchMaxResults, outcome |-> o])]
          /\ pc' = [pc EXCEPT ![r] = SearchNext(o)]
          /\ IF pc'[r] = "result_loop"
             THEN /\ results' = [results EXCEPT ![r] = o.results]
                  /\ search_context' = [search_context EXCEPT ![r] = <<TextPart(SearchHeader)>>]
                  /\ idx' = [idx EXCEPT ![r] = 1]
             ELSE UNCHANGED <<results, search_context, idx>>
    /\ UNCHANGED <<dbvars, client, request, urls, sources, url_context, user_content,
                   system_prompt, out, provider>>

(* one iteration of `for idx, res in enumerate(results, 1)`, and the two *)
(* statements after the loop                                            *)
FetchResult(r, E) ==
    /\ pc[r] = "result_loop"
    /\ \E o \in E.fetches :
          LET res == results[r][idx[r]]
              url == Get(res, "href", "")
              title == Get(res, "title", "Untitled")
              snippet == Get(res, "body", "")
              got == fetch_url_content(url, o)
              ctx2 == IF ~got.raised
                      THEN Append(search_context[r], SearchEvidence(idx[r], title, url, got.value))
                      ELSE IF snippet # ""
                           THEN Append(search_context[r], SnippetEvidence(idx[r], title, url, snippet))
                           ELSE search_context[r]
          IN  /\ calls' = [calls EXCEPT ![r] =
                               Append(@, [kind |-> "fetch", pos |-> idx[r], url |-> url,
                                          outcome |-> o, raised |-> got.raised])]
              /\ search_context' = [search_context EXCEPT ![r] = ctx2]
              /\ sources' = sources_append(sources, r, ResultSource(url, title, snippet))
              /\ IF MoreItems(idx[r], results[r])
                 THEN /\ idx' = [idx EXCEPT ![r] = @ + 1]
                      /\ UNCHANGED <<pc, user_content, system_prompt>>
                 ELSE /\ user_content' = [user_content EXCEPT ![r] = @ \o ctx2]
                      /\ system_prompt' = [system_prompt EXCEPT ![r] = Append(@, SearchInstruction)]
                      /\ pc' = [pc EXCEPT ![r] = "invoke"]
                      /\ UNCHANGED idx
    /\ UNCHANGED <<dbvars, client, request, urls, results, url_context, out, provider>>

(* a call of client.chat.completions.create as the log records it *)
ModelCall(r, stream) ==
    [kind |-> "model", stream |-> stream,
     system_prompt |-> system_prompt[r], user_content |-> user_content[r]]

(* ask_ai from `if not client` to its return *)
Complete(r, E) ==
    /\ pc[r] = "invoke"
    /\ ~request[r].stream
    /\ IF ~client
       THEN /\ out' = [out EXCEPT ![r] = NotConfiguredReply(sources[r])]
            /\ pc' = [pc EXCEPT ![r] = "done"]
            /\ UNCHANGED <<calls, provider>>
       ELSE \E b \in ProviderBehaviours(E) :
               /\ calls' = [calls EXCEPT ![r] = Append(@, ModelCall(r, FALSE))]
               /\ provider' = [provider EXCEPT ![r] = b]
               /\ IF b.failed
                  THEN /\ out' = [out EXCEPT ![r] = OuterExcept(b.err).emit]
                       /\ pc' = [pc EXCEPT ![r] = OuterExcept(b.err).pc]
                  ELSE /\ out' = [out EXCEPT ![r] =
                                     <<MessageContent(b.incs) \o BatchSuffix(sources[r])>>]
                       /\ pc' = [pc EXCEPT ![r] = "done"]
    /\ UNCHANGED <<dbvars, client, request, urls, results, idx, sources, url_context,
                   search_context, user_content, system_prompt>>

(* event_generator from `if not client` to the start of `for chunk in stream` *)
OpenStream(r) ==
    /\ pc[r] = "invoke"
    /\ request[r].stream
    /\ IF ~client
       THEN /\ out' = [out EXCEPT ![r] = NotConfiguredReply(sources[r])]
            /\ pc' = [pc EXCEPT ![r] = "done"]
            /\ UNCHANGED <<calls, provider>>
       ELSE /\ calls' = [calls EXCEPT ![r] = Append(@, ModelCall(r, TRUE))]
            /\ \/ /\ pc' = [pc EXCEPT ![r] = "streaming"]
                  /\ UNCHANGED <<out, provider>>
               \/ \E e \in ModelErrors :
                     /\ provider' = [provider EXCEPT ![r] = [incs |-> <<>>, failed |-> TRUE, err |-> e]]
                     /\ out' = [out EXCEPT ![r] = OuterExcept(e).emit]
                     /\ pc' = [pc EXCEPT ![r] = OuterExcept(e).pc]
    /\ UNCHANGED <<dbvars, client, request, urls, results, idx, sources, url_context,
                   search_context, user_content, system_prompt>>

(* one iteration of `for chunk in stream` *)
StreamNext(r, E) ==
    /\ pc[r] = "streaming"
    /\ Len(provider[r].incs) < E.maxChunks
    /\ \E c \in E.increments :
          /\ provider' = [provider EXCEPT ![r].incs = Append(@, c)]
          /\ out' = [out EXCEPT ![r] = @ \o Yielded(c)]
    /\ UNCHANGED <<dbvars, client, pc, request, urls, results, idx, sources, url_context,
                   search_context, user_content, system_prompt, calls>>

(* the stream is exhausted: `if sources:` and the end of the generator *)
StreamEnd(r) ==
    /\ pc[r] = "streaming"
    /\ out' = [out EXCEPT ![r] = @ \o StreamSuffix(sources[r])]
    /\ pc' = [pc EXCEPT ![r] = "done"]
    /\ UNCHANGED <<dbvars, client, request, urls, results, idx, sources, url_context,
                   search_context, user_content, system_prompt, calls, provider>>

(* the stream raises while being iterated *)
StreamFail(r) ==
    /\ pc[r] = "streaming"
    /\ \E e \in ModelErrors :
          /\ provider' = [provider EXCEPT ![r] = [@ EXCEPT !.failed = TRUE, !.err = e]]
          /\ out' = [out EXCEPT ![r] = @ \o OuterExcept(e).emit]
          /\ pc' = [pc EXCEPT ![r] = OuterExcept(e).pc]
    /\ UNCHANGED <<dbvars, client, request, urls, results, idx, sources, url_context,
                   search_context, user_content, system_prompt, calls>>

-----------------------------------------------------------------------------
(* The users endpoints; each runs its statements on its own connection *)

(* POST /users *)
sync_user(user) ==
    /\ IF user.id \in DOMAIN users
       THEN /\ resp' = Response("sync_user", user.id, 200, "", users[user.id].avatar, None)
            /\ UNCHANGED users
       ELSE IF InsertAccepted(5)
            THEN /\ users' = Insert(users, user.id,
                                    [name |-> user.name, email |-> user.email,
                                     avatar |-> user.avatar, status |-> user.status,
                                     password |-> None])
                 /\ resp' = Response("sync_user", user.id, 200, "", user.avatar, None)
            ELSE /\ resp' = Response("sync_user", user.id, 500, "", None, None)
                 /\ UNCHANGED users
    /\ UNCHANGED <<askvars, message_reactions, password_resets, groupvars, th>>

(* POST /auth/register *)
register(data) ==
    /\ IF ByEmail(users, data.email) # {}
       THEN /\ resp' = Response("register", None, 400, "", None, None)
            /\ UNCHANGED users
       ELSE \E new_id \in NewIds \ DOMAIN users :
               /\ users' = Insert(users, new_id,
                                  [name |-> data.name, email |-> data.email,
                                   avatar |-> Dicebear(data.email), status |-> "online",
                                   password |-> data.password])
               /\ resp' = Response("register", new_id, 200, "", Dicebear(data.email), None)
    /\ UNCHANGED <<askvars, message_reactions, password_resets, groupvars, th>>

(* POST /auth/google *)
google_auth(data) ==
    /\ IF data.mode = "signup"
       THEN IF ByEmail(users, data.email) # {}
            THEN /\ resp' = Response("google_auth", None, 400, "", None, None)
                 /\ UNCHANGED users
            ELSE \E new_id \in NewIds \ DOMAIN users :
                    /\ users' = Insert(users, new_id,
                                       [name |-> data.name, email |-> data.email,
                                        avatar |-> data.avatar, status |-> "online",
                                        password |-> None])
                    /\ resp' = Response("google_auth", new_id, 200, "", data.avatar, None)
       ELSE IF data.mode = "login"
            THEN IF ByEmail(users, data.email) = {}
                 THEN /\ resp' = Response("google_auth", None, 400, "", None, None)
                      /\ UNCHANGED users
                 ELSE \E id \in ByEmail(users, data.email) :
                         IF Falsy(users[id].avatar) /\ ~Falsy(data.avatar)
                         THEN /\ users' = [users EXCEPT ![id].avatar = data.avatar]
                              /\ resp' = Response("google_auth", id, 200, "", data.avatar,
                                                  data.avatar)
                         ELSE /\ resp' = Response("google_auth", id, 200, "",
                                                  users[id].avatar, None)
                              /\ UNCHANGED users
            ELSE /\ resp' = Response("google_auth", None, 400, "", None, None)
                 /\ UNCHANGED users
    /\ UNCHANGED <<askvars, message_reactions, password_resets, groupvars, th>>

(* GET /users/{user_id} *)
get_user(user_id) ==
    /\ IF user_id \notin DOMAIN users
       THEN resp' = Response("get_user", user_id, 404, "", None, None)
       ELSE resp' = Response("get_user", user_id, 200, "", users[user_id].avatar, None)
    /\ UNCHANGED <<users, askvars, message_reactions, password_resets, groupvars, th>>

(* POST /users/{user_id}/avatar *)
upload_avatar(user_id, file) ==
    /\ IF file.content_type # "image/png" \/ file.size > 2 * 1024 * 1024
       THEN /\ resp' = Response("upload_avatar", user_id, 400, "", None, None)
            /\ UNCHANGED users
       ELSE IF user_id \in DOMAIN users
            THEN /\ users' = [users EXCEPT ![user_id].avatar = AvatarUrl(user_id, file)]
                 /\ resp' = Response("upload_avatar", user_id, 200, "",
                                     AvatarUrl(user_id, file), AvatarUrl(user_id, file))
            ELSE /\ resp' = Response("upload_avatar", user_id, 500, "", None, None)
                 /\ UNCHANGED users
    /\ UNCHANGED <<askvars, message_reactions, password_resets, groupvars, th>>

(* PUT /users/{user_id} *)
update_user(user_id, data) ==
    /\ IF data.name = None /\ data.avatar = None
       THEN /\ resp' = Response("update_user", user_id, 200, "no changes", None, None)
            /\ UNCHANGED users
       ELSE IF user_id \in DOMAIN users
            THEN /\ users' = [users EXCEPT ![user_id] = SetClause(@, data)]
                 /\ resp' = Response("update_user", user_id, 200, "success",
                                     users'[user_id].avatar, data.avatar)
            ELSE /\ resp' = Response("update_user", user_id, 500, "", None, None)
                 /\ UNCHANGED users
    /\ UNCHANGED <<askvars, message_reactions, password_resets, groupvars, th>>

-----------------------------------------------------------------------------
(* The reactions endpoints. Each `def` endpoint runs on a thread of the    *)
(* server's pool with its own connection; a handler that reads and then    *)
(* writes is cut between the two statements.                               *)

Free(t) == th[t].pc \in {"idle", "done", "error"}

(* the threads that hold a uuid they have not inserted yet *)
Pending == {t \in Threads : th[t].pc = "insert"}

(* `SELECT id FROM message_reactions WHERE message_id = ? AND user_id = ? AND emoji = ?` *)
ReactionsOf(rows, m, u, e) ==
    {x \in rows : x.message_id = m /\ x.user_id = u /\ x.emoji = e}

(* UNIQUE(message_id, user_id, emoji) and PRIMARY KEY (id) of message_reactions *)
UniqueViolated(rows, row) ==
    \/ ReactionsOf(rows, row.message_id, row.user_id, row.emoji) # {}
    \/ \E x \in rows : x.id = row.id

(* add_reaction up to `existing = cursor.fetchone()` and the `if existing:` *)
add_reaction_select(t, m, u, e) ==
    /\ Free(t)
    /\ uuid + Cardinality(Pending) < MaxUuids
    /\ LET existing == ReactionsOf(message_reactions, m, u, e)
       IN  IF existing # {}
           THEN \E x \in existing :
                   th' = [th EXCEPT ![t] = [pc |-> "done", op |-> "add_reaction",
                                            status |-> "exists", id |-> x.id,
                                            message_id |-> m, user_id |-> u, emoji |-> e]]
           ELSE th' = [th EXCEPT ![t] = [pc |-> "insert", op |-> "add_reaction",
                                         status |-> "", id |-> None,
                                         message_id |-> m, user_id |-> u, emoji |-> e]]
    /\ UNCHANGED <<askvars, uservars, message_reactions, password_resets, groupvars>>

(* add_reaction from `new_id = str(uuid.uuid4())` to its return *)
add_reaction_insert(t) ==
    /\ th[t].pc = "insert"
    /\ th[t].op = "add_reaction"
    /\ uuid' = uuid + 1
    /\ LET row == [id |-> uuid4(uuid'), message_id |-> th[t].message_id,
                   user_id |-> th[t].user_id, emoji |-> th[t].emoji]
       IN  IF UniqueViolated(message_reactions, row)
           THEN /\ th' = [th EXCEPT ![t].pc = "error", ![t].status = "IntegrityError"]
                /\ UNCHANGED message_reactions
           ELSE /\ message_reactions' = message_reactions \cup {row}
                /\ th' = [th EXCEPT ![t].pc = "done", ![t].status = "success",
                                    ![t].id = row.id]
    /\ UNCHANGED <<askvars, uservars, password_resets, groups, group_members, messages,
                   threads, invitations, gresp>>

(* DELETE /messages/{message_id}/reactions *)
remove_reaction(t, m, u, e) ==
    /\ Free(t)
    /\ message_reactions' = message_reactions \ ReactionsOf(message_reactions, m, u, e)
    /\ th' = [th EXCEPT ![t] = [pc |-> "done", op |-> "remove_reaction",
                                status |-> "success", id |-> None,
                                message_id |-> m, user_id |-> u, emoji |-> e]]
    /\ UNCHANGED <<askvars, uservars, password_resets, groupvars>>

-----------------------------------------------------------------------------
(* The password-reset endpoints *)

(* POST /auth/forgot-password: the row is committed before the mail is sent, *)
(* so it is there whether the mail goes out (200) or not (500)              *)
forgot_password(t, email) ==
    /\ Free(t)
    /\ uuid + Cardinality(Pending) < MaxUuids
    /\ IF ByEmail(users, email) = {}
       THEN /\ th' = [th EXCEPT ![t] = [pc |-> "done", op |-> "forgot_password",
                                        status |-> "success", id |-> None]]
            /\ UNCHANGED <<password_resets, uuid>>
       ELSE /\ uuid' = uuid + 1
            /\ password_resets' =
                  [k \in DOMAIN password_resets \cup {uuid4(uuid')} |->
                      IF k = uuid4(uuid')
                      THEN [email |-> email, expired |-> FALSE, used_at |-> None]
                      ELSE password_resets[k]]
            /\ \E sent \in BOOLEAN :
                  th' = [th EXCEPT ![t] = [pc |-> IF sent THEN "done" ELSE "error",
                                           op |-> "forgot_password",
                                           status |-> IF sent THEN "success" ELSE "500",
                                           id |-> uuid4(uuid')]]
    /\ UNCHANGED <<askvars, uservars, message_reactions, groups, group_members, messages,
                   threads, invitations, gresp>>

(* the hour after which the tokens issued so far are past `expires_at` *)
Elapse ==
    /\ \E k \in DOMAIN password_resets : ~password_resets[k].expired
    /\ password_resets' = [k \in DOMAIN password_resets |->
                              [password_resets[k] EXCEPT !.expired = TRUE]]
    /\ UNCHANGED <<askvars, uservars, message_reactions, groupvars, th>>

(* reset_password up to the expiry check: the SELECT .. `used_at IS NULL` *)
reset_password_select(t, token, new_password) ==
    /\ Free(t)
    /\ LET rejected(detail) ==
               [pc |-> "done", op |-> "reset_password", status |-> detail, id |-> token]
       IN  IF token \notin DOMAIN password_resets \/ password_resets[token].used_at # None
           THEN th' = [th EXCEPT ![t] = rejected("Invalid or expired reset token")]
           ELSE IF password_resets[token].expired
                THEN th' = [th EXCEPT ![t] = rejected("Reset token has expired")]
                ELSE th' = [th EXCEPT ![t] =
                               [pc |-> "update", op |-> "reset_password", status |-> "",
                                id |-> token, email |-> password_resets[token].email,
                                new_password |-> new_password]]
    /\ UNCHANGED <<askvars, uservars, message_reactions, password_resets, groupvars>>

(* reset_password: the two UPDATEs, the commit and the return *)
reset_password_update(t) ==
    /\ th[t].pc = "update"
    /\ users' = [id \in DOMAIN users |->
                    IF users[id].email = th[t].email
                    THEN [users[id] EXCEPT !.password = th[t].new_password]
                    ELSE users[id]]
    /\ password_resets' = [password_resets EXCEPT ![th[t].id].used_at = "now"]
    /\ th' = [th EXCEPT ![t].pc = "done", ![t].status = "success"]
    /\ UNCHANGED <<askvars, resp, message_reactions, groupvars>>

-----------------------------------------------------------------------------
(* The groups, invitations and threads endpoints *)

(* POST /groups *)
create_group(name, user_id) ==
    /\ uuid + 2 <= MaxUuids
    /\ uuid' = uuid + 2
    /\ LET new_id == uuid4(uuid + 1)
           msg_id == uuid4(uuid + 2)
           first == InsertMember(group_members, Member(new_id, user_id))
           second == InsertMember(first.rows, Member(new_id, "ai-agent"))
       IN  IF first.raised \/ second.raised
           THEN /\ gresp' = GroupResponse("create_group", 500, "IntegrityError", None,
                                          user_id, None, None)
                /\ UNCHANGED <<groups, group_members, messages>>
           ELSE /\ groups' = [g \in DOMAIN groups \cup {new_id} |->
                                 IF g = new_id
                                 THEN [name |-> name, owner_id |-> user_id, type |-> "group"]
                                 ELSE groups[g]]
                /\ group_members' = second.rows
                /\ messages' = messages \cup {[id |-> msg_id, group_id |-> new_id]}
                /\ gresp' = GroupResponse("create_group", 200, "", new_id, user_id, None, None)
    /\ UNCHANGED <<askvars, uservars, message_reactions, password_resets, threads,
                   invitations, th>>

(* POST /dms; `fetchone()` of a query without ORDER BY returns any of its rows *)
create_dm(user1_id, user2_id) ==
    /\ LET existing == ExistingDm(user1_id, user2_id, groups, group_members)
       IN  IF existing # {}
           THEN /\ \E g \in existing :
                      gresp' = GroupResponse("create_dm", 200, "", g, user1_id, user2_id, None)
                /\ UNCHANGED <<groups, group_members, uuid>>
           ELSE /\ uuid + 1 <= MaxUuids
                /\ uuid' = uuid + 1
                /\ LET new_id == uuid4(uuid + 1)
                       first == InsertMember(group_members, Member(new_id, user1_id))
                       second == InsertMember(first.rows, Member(new_id, user2_id))
                   IN  IF first.raised \/ second.raised
                       THEN /\ gresp' = GroupResponse("create_dm", 500, "IntegrityError", None,
                                                      user1_id, user2_id, None)
                            /\ UNCHANGED <<groups, group_members>>
                       ELSE /\ groups' = [g \in DOMAIN groups \cup {new_id} |->
                                             IF g = new_id
                                             THEN [name |-> "Private Chat",
                                                   owner_id |-> user1_id, type |-> "dm"]
                                             ELSE groups[g]]
                            /\ group_members' = second.rows
                            /\ gresp' = GroupResponse("create_dm", 200, "", new_id,
                                                      user1_id, user2_id, None)
    /\ UNCHANGED <<askvars, uservars, message_reactions, password_resets, messages, threads,
                   invitations, th>>

(* POST /groups/{group_id}/invitations; the id of the row is not modelled *)
create_invitation(group_id, user_id) ==
    /\ uuid + 1 <= MaxUuids
    /\ uuid' = uuid + 1
    /\ invitations' = [k \in DOMAIN invitations \cup {uuid4(uuid + 1)} |->
                          IF k = uuid4(uuid + 1)
                          THEN [group_id |-> group_id, created_by |-> user_id,
                                expires_at |-> None]
                          ELSE invitations[k]]
    /\ gresp' = GroupResponse("create_invitation", 200, "", group_id, user_id, None,
                              uuid4(uuid + 1))
    /\ UNCHANGED <<askvars, uservars, message_reactions, password_resets, groups,
                   group_members, messages, threads, th>>

(* POST /invitations/accept *)
accept_invitation(token, user_id) ==
    /\ IF token \notin DOMAIN invitations
       THEN /\ gresp' = GroupResponse("accept_invitation", 400, "Invalid invitation link",
                                      None, user_id, None, token)
            /\ UNCHANGED group_members
       ELSE LET group_id == invitations[token].group_id
            IN  IF group_id \notin DOMAIN groups
                THEN /\ gresp' = GroupResponse("accept_invitation", 404, "Group not found",
                                               group_id, user_id, None, token)
                     /\ UNCHANGED group_members
                ELSE LET ins == InsertOrIgnore(group_members, Member(group_id, user_id))
                     IN  IF ins.raised
                         THEN /\ gresp' = GroupResponse("accept_invitation", 500,
                                                        "IntegrityError", group_id, user_id,
                                                        None, token)
                              /\ UNCHANGED group_members
                         ELSE /\ group_members' = ins.rows
                              /\ gresp' = GroupResponse("accept_invitation", 200, "",
                                                        group_id, user_id, None, token)
    /\ UNCHANGED <<askvars, uservars, message_reactions, password_resets, groups, messages,
                   threads, invitations, uuid, th>>

(* DELETE /groups/{group_id} *)
delete_group(group_id) ==
    /\ groups' = [g \in DOMAIN groups \ {group_id} |-> groups[g]]
    /\ group_members' = WithoutGroup(group_members, group_id)
    /\ messages' = WithoutGroup(messages, group_id)
    /\ threads' = WithoutGroup(threads, group_id)
    /\ gresp' = GroupResponse("delete_group", 200, "success", group_id, None, None, None)
    /\ UNCHANGED <<askvars, uservars, message_reactions, password_resets, invitations,
                   uuid, th>>

(* POST /threads *)
create_thread(group_id, created_by) ==
    /\ uuid + 1 <= MaxUuids
    /\ uuid' = uuid + 1
    /\ threads' = threads \cup {[id |-> uuid4(uuid + 1), group_id |-> group_id]}
    /\ gresp' = GroupResponse("create_thread", 200, "", group_id, created_by, None, None)
    /\ UNCHANGED <<askvars, uservars, message_reactions, password_resets, groups,
                   group_members, messages, invitations, th>>

-----------------------------------------------------------------------------
(* Specifications *)

(* what the environment of a run is drawn from *)
Env ==
    [questions |-> Questions, contexts |-> Contexts,
     fetches |-> {o \in FetchOutcomes : o.len # 2000},
     results |-> RawResults, maxResults |-> MaxResults,
     increments |-> Increments, maxChunks |-> MaxChunks]

Step(r, E) ==
    \/ FetchUrl(r, E)
    \/ Search(r, E)
    \/ FetchResult(r, E)
    \/ Complete(r, E)
    \/ OpenStream(r)
    \/ StreamNext(r, E)
    \/ StreamEnd(r)
    \/ StreamFail(r)

(* one request *)
Next ==
    \/ ask_ai("r1", Env)
    \/ ask_ai_stream("r1", Env)
    \/ Step("r1", Env)

Spec == Init /\ [][Next]_vars

(* a handler runs on a server thread until it returns; every external call *)
(* returns or raises (timeout=10 on fetches, max_tokens on the model)      *)
FairSpec == Spec /\ WF_vars(Step("r1", Env))

(* two concurrent requests, in a smaller environment *)
PairEnv ==
    [questions |-> { <<"q", " ">>, <<"h","t","t","p",":","/","/","a"," ">> },
     contexts |-> Contexts,
     fetches |-> {o \in FetchOutcomes : o.len = 2000 \/ o.status = "http_error"},
     results |-> {x \in RawResults : "title" \in DOMAIN x},
     maxResults |-> MaxResults - 1,
     increments |-> {c \in Increments : c.text # "B"},
     maxChunks |-> MaxChunks - 1]

NextPair ==
    \E r \in Reqs :
        \/ ask_ai(r, PairEnv)
        \/ ask_ai_stream(r, PairEnv)
        \/ Step(r, PairEnv)

SpecPair == Init /\ [][NextPair]_vars

(* the users endpoints, called in any order with these inputs *)
SignupEmails == Emails \cup {"you@example.com"}

NextDb ==
    \/ \E id \in UserIds \cup {"user-sync"} :
          sync_user([id |-> id, name |-> "S", email |-> "you@example.com", avatar |-> "s",
                     status |-> "online"])
    \/ \E email \in SignupEmails : register([email |-> email, name |-> "User", password |-> "pw"])
    \/ \E email \in SignupEmails, avatar \in {None, "g"}, mode \in {"signup", "login", "link"} :
          google_auth([email |-> email, name |-> "G", avatar |-> avatar, mode |-> mode])
    \/ \E id \in UserIds : get_user(id)
    \/ \E id \in UserIds, file \in Files : upload_avatar(id, file)
    \/ \E id \in UserIds, name \in {None, "N"}, avatar \in {None, "", "a1"} :
          update_user(id, [name |-> name, avatar |-> avatar])

SpecDb == Init /\ [][NextDb]_vars

(* the reactions endpoints on two threads *)
Emojis == {"+1", "heart"}

NextReact ==
    \E t \in Threads :
        \/ \E e \in Emojis : add_reaction_select(t, "m1", "user-1", e)
        \/ add_reaction_insert(t)
        \/ \E e \in Emojis : remove_reaction(t, "m1", "user-1", e)

SpecReact == Init /\ [][NextReact]_vars

(* the tokens a caller may present: those that may be issued, and one that is not *)
Tokens == {uuid4(n) : n \in 1..MaxUuids} \cup {"bogus"}

(* the password-reset endpoints on two threads *)
NextReset ==
    \/ \E t \in Threads :
          \/ \E email \in {"you@example.com", "nobody@x.org"} : forgot_password(t, email)
          \/ \E token \in Tokens, pw \in {"p1", "p2"} :
                reset_password_select(t, token, pw)
          \/ reset_password_update(t)
    \/ Elapse

SpecReset == Init /\ [][NextReset]_vars

(* the groups endpoints, called in any order with these inputs *)
People == {"user-2", "ai-agent"}

DmPairs ==
    {<<"user-1", "user-2">>, <<"user-2", "user-1">>, <<"user-1", "ai-agent">>,
     <<"user-1", "user-1">>}

(* the group ids the endpoints are called with: the seeded group and the *)
(* first uuid, which is a group, a dm, or the id of no group             *)
GroupIds == {"group-1", uuid4(1)}

NextGroups ==
    \/ \E u \in {"user-1", "ai-agent"} : create_group("Team", u)
    \/ \E p \in DmPairs : create_dm(p[1], p[2])
    \/ \E g \in GroupIds : create_invitation(g, "user-1")
    \/ \E token \in Tokens, u \in People : accept_invitation(token, u)
    \/ \E g \in GroupIds : delete_group(g)
    \/ \E g \in GroupIds : create_thread(g, "user-1")

SpecGroups == Init /\ [][NextGroups]_vars

-----------------------------------------------------------------------------
(* Reading the log *)

IsFetch(c) == c.kind = "fetch"
IsSearch(c) == c.kind = "search"
IsModel(c) == c.kind = "model"

Fetches(r) == SelectSeq(calls[r], IsFetch)
Searches(r) == SelectSeq(calls[r], IsSearch)
ModelCalls(r) == SelectSeq(calls[r], IsModel)
Evidence(r) == SelectSeq(calls[r], LAMBDA c : c.kind # "model")

FetchFailed(c) == c.outcome.status # "ok"

ContainsUrl(q) == \E i \in 1..Len(q) : MatchEnd(q, i) # 0

Started(r) == pc[r] # "idle"
Gathering(r) == pc[r] \in {"url_loop", "search", "result_loop"}
Gathered(r) == pc[r] \in {"invoke", "streaming", "done"}

ErrorString(r) == "Error calling OpenAI: " \o provider[r].err

RECURSIVE Delivered(_)
(* the fragments a stream of these increments makes the generator yield *)
Delivered(incs) ==
    IF incs = <<>> THEN <<>>
    ELSE (IF incs[1].isNone THEN <<>> ELSE <<incs[1].text>>) \o Delivered(Tail(incs))

Last(seq) == seq[Len(seq)]

(* the citation block as the specification words it *)
RECURSIVE CitationItems(_)
CitationItems(srcs) ==
    IF srcs = <<>> THEN ""
    ELSE "- [" \o srcs[1].title \o "](" \o srcs[1].url \o ")\n" \o CitationItems(Tail(srcs))

CitationBlock(srcs) == "\n\n**Sources:**\n" \o CitationItems(srcs)

-----------------------------------------------------------------------------
(* C1: every invocation reaches Done exactly once, whatever fails, and no   *)
(* external call is retried: each loop position is fetched once, the search *)
(* and the model are called at most once, and a finished request stays      *)
(* finished with the output it has.                                         *)

NoRetry(r) ==
    /\ \A i \in 1..Len(Fetches(r)) : Fetches(r)[i].pos = i
    /\ Len(Searches(r)) <= 1
    /\ Len(ModelCalls(r)) <= 1

C1_DoneExactlyOnce ==
    /\ [](NoRetry("r1") /\ pc["r1"] # "raised")
    /\ [][pc["r1"] = "done" => UNCHANGED <<pc, out, calls>>]_vars
    /\ Started("r1") ~> (pc["r1"] = "done")

C1_Witness ==
    /\ pc["r1"] = "done"
    /\ provider["r1"].failed
    /\ \E i \in 1..Len(Fetches("r1")) : FetchFailed(Fetches("r1")[i])

(* C2: a question that contains a URL never makes the request call the     *)
(* search provider, also when every fetch fails.                           *)
C2_NoSearchWhenUrl ==
    \A r \in Reqs :
        (Started(r) /\ ContainsUrl(request[r].question)) => Searches(r) = <<>>

C2_Witness ==
    /\ pc["r1"] = "done"
    /\ ContainsUrl(request["r1"].question)
    /\ Len(Fetches("r1")) = 2
    /\ \A i \in 1..Len(Fetches("r1")) : FetchFailed(Fetches("r1")[i])

(* C3: in URL-grounded mode the source list is the URLs whose fetch         *)
(* succeeded, in order; a failed fetch contributes no source.               *)
FetchedOk(r) == SelectSeq(Fetches(r), LAMBDA c : ~FetchFailed(c))

UrlSources(fs) == [i \in 1..Len(fs) |-> [url |-> fs[i].url, title |-> fs[i].url]]

C3_SourcesAreFetchedUrls ==
    \A r \in Reqs :
        (Gathered(r) /\ urls[r] # <<>>) => sources[r] = UrlSources(FetchedOk(r))

(* C4: when every URL fetch fails and the model succeeds, the source list  *)
(* is empty and the content is the model's output alone.                   *)
C4_AllFetchesFail ==
    \A r \in Reqs :
        ( /\ pc[r] = "done"
          /\ urls[r] # <<>>
          /\ \A i \in 1..Len(Fetches(r)) : FetchFailed(Fetches(r)[i])
          /\ client
          /\ ~provider[r].failed )
        => /\ sources[r] = <<>>
           /\ Concat(out[r]) = MessageContent(provider[r].incs)

(* C5: the content fetcher signals a non-2xx status or a transport error   *)
(* to its caller instead of returning a value.                             *)
C5_FetcherSignalsFailure ==
    \A r \in Reqs :
        \A i \in 1..Len(Fetches(r)) :
            FetchFailed(Fetches(r)[i]) => Fetches(r)[i].raised

(* C6 as stated: whenever the source list is non-empty at the end of a      *)
(* request, the citation block is the suffix of the batch content, or the  *)
(* single last fragment of the stream.                                     *)
BlockIsSuffix(r) ==
    /\ Len(out[r]) = 1
    /\ \E p \in {MessageContent(provider[r].incs), ErrorString(r), ConfigError} :
          out[r][1] = p \o CitationBlock(sources[r])

BlockIsLastFragment(r) ==
    /\ Len(out[r]) >= 1
    /\ Last(out[r]) = CitationBlock(sources[r])
    /\ \A i \in 1..(Len(out[r]) - 1) : out[r][i] # CitationBlock(sources[r])

SameRun(a, b) ==
    /\ pc[a] = "done" /\ pc[b] = "done"
    /\ ~request[a].stream /\ request[b].stream
    /\ request[a].question = request[b].question
    /\ request[a].chatContext = request[b].chatContext
    /\ Evidence(a) = Evidence(b)
    /\ provider[a] = provider[b]

C8_EvidenceNeverRaises ==
    /\ [][Gathering("r1") => (Gathering("r1")' \/ pc'["r1"] = "invoke")]_vars
    /\ Gathering("r1") ~> (pc["r1"] = "invoke")

C8_Witness ==
    /\ pc["r1"] = "invoke"
    /\ Len(Searches("r1")) = 1
    /\ Searches("r1")[1].outcome.raised
    /\ sources["r1"] = <<>>

(* C9: with the client not configured or the provider failing, no          *)
(* exception escapes and the caller receives the error string: alone in    *)
(* batch mode, as the final fragment in streaming mode.                    *)
C9_ModelFailureIsAnAnswer ==
    \A r \in Reqs :
        /\ pc[r] # "raised"
        /\ (pc[r] = "done" /\ ~client) => out[r] = <<ConfigError>>
        /\ (pc[r] = "done" /\ provider[r].failed)
           => IF request[r].stream
              THEN out[r] = Delivered(provider[r].incs) \o <<ErrorString(r)>>
              ELSE out[r] = <<ErrorString(r)>>

C9_Witness ==
    /\ pc["r1"] = "done"
    /\ provider["r1"].failed
    /\ request["r1"].stream
    /\ out["r1"] = <<ErrorString("r1")>>

(* C10: a question without URL takes the search branch: one search call,   *)
(* first of all calls, with the question text and max_results = 5; the URL *)
(* loop does not run and every fetch is of a search result.                *)
C10_ZeroUrlsSearchOnce ==
    \A r \in Reqs :
        (Started(r) /\ ~ContainsUrl(request[r].question))
        => /\ pc[r] # "url_loop"
           /\ url_context[r] = <<>>
           /\ IF pc[r] = "search"
              THEN calls[r] = <<>>
              ELSE /\ Len(Searches(r)) = 1
                   /\ calls[r][1].kind = "search"
                   /\ calls[r][1].query = Str(request[r].question)
                   /\ calls[r][1].max_results = 5
           /\ \A i \in 1..Len(Fetches(r)) :
                 Fetches(r)[i].url = Get(results[r][i], "href", "")

C10_Witness ==
    /\ pc["r1"] = "done"
    /\ ~ContainsUrl(request["r1"].question)
    /\ Len(Fetches("r1")) = 2

-----------------------------------------------------------------------------
(* Reading the prompts *)

IsEvidence(part) == part.t \in {"url_source", "search_source"}

(* the evidence paragraphs of a user prompt, in order *)
Paragraphs(uc) == SelectSeq(uc, IsEvidence)

HasEvidenceBlock(uc) ==
    \E i \in 1..Len(uc) :
        \/ IsEvidence(uc[i])
        \/ uc[i].t = "text" /\ uc[i].text \in {UrlHeader, SearchHeader}

HasCitationInstruction(sp) ==
    \E i \in 1..Len(sp) : sp[i] \in {UrlInstruction, SearchInstruction}

Succeeded(r) == pc[r] = "done" /\ client /\ ~provider[r].failed

(* C11: when the search raises or returns no result, the source list is    *)
(* empty, neither prompt is augmented (also as the model receives them),   *)
(* and a successful answer is the model's output alone.                    *)
SearchCameBackEmpty(r) ==
    /\ Len(Searches(r)) = 1
    /\ Searches(r)[1].outcome.raised \/ Searches(r)[1].outcome.results = <<>>

C11_EmptySearchNoAugmentation ==
    \A r \in Reqs :
        SearchCameBackEmpty(r)
        => /\ sources[r] = <<>>
           /\ ~HasEvidenceBlock(user_content[r])
           /\ ~HasCitationInstruction(system_prompt[r])
           /\ \A i \in 1..Len(ModelCalls(r)) :
                 /\ ~HasEvidenceBlock(ModelCalls(r)[i].user_content)
                 /\ ~HasCitationInstruction(ModelCalls(r)[i].system_prompt)
           /\ Succeeded(r) => Concat(out[r]) = MessageContent(provider[r].incs)

C11_Witness ==
    /\ Succeeded("r1")
    /\ ~request["r1"].stream
    /\ Len(Searches("r1")) = 1
    /\ ~Searches("r1")[1].outcome.raised
    /\ Searches("r1")[1].outcome.results = <<>>
    /\ out["r1"] = <<"AB">>

(* C12: in search-grounded mode a result whose fetch fails and that has a   *)
(* snippet is given to the model with its snippet as evidence, and is      *)
(* listed as a source.                                                     *)
C12_SnippetOnFetchFailure ==
    \A r \in Reqs :
        \A i \in 1..Len(Fetches(r)) :
            ( /\ Gathered(r)
              /\ urls[r] = <<>>
              /\ FetchFailed(Fetches(r)[i])
              /\ Get(results[r][i], "body", "") # "" )
            => /\ \E k \in 1..Len(user_content[r]) :
                     /\ user_content[r][k].t = "search_source"
                     /\ user_content[r][k].idx = i
                     /\ user_content[r][k].label = "Snippet"
                     /\ user_content[r][k].content.body = Get(results[r][i], "body", "")
               /\ \A k \in 1..Len(user_content[r]) :
                     (user_content[r][k].t = "search_source" /\ user_content[r][k].idx = i)
                     => user_content[r][k].label = "Snippet"
               /\ \E n \in 1..Len(sources[r]) :
                     sources[r][n].url = Get(results[r][i], "href", "")

(* C13: a successful answer is the model's text followed by nothing when   *)
(* the source list is empty, and otherwise by the header line and one list *)
(* item per source, in the order of the source list, duplicates included;  *)
(* in streaming mode the block is one fragment.                            *)
CitationItem(src) == "- [" \o src.title \o "](" \o src.url \o ")\n"

Rendered(srcs) ==
    IF srcs = <<>> THEN ""
    ELSE "\n\n**Sources:**\n" \o Concat([i \in 1..Len(srcs) |-> CitationItem(srcs[i])])

C13_CitationBlockFormat ==
    \A r \in Reqs :
        Succeeded(r)
        => /\ Concat(out[r]) = MessageContent(provider[r].incs) \o Rendered(sources[r])
           /\ request[r].stream
              => Len(out[r]) = Len(Delivered(provider[r].incs))
                               + (IF sources[r] = <<>> THEN 0 ELSE 1)

C13_Witness ==
    /\ Succeeded("r1")
    /\ Len(sources["r1"]) = 2
    /\ sources["r1"][1] = sources["r1"][2]
    /\ Rendered(sources["r1"]) =
          "\n\n**Sources:**\n- [https://b.c](https://b.c)\n- [https://b.c](https://b.c)\n"
    /\ Last(out["r1"]) = Rendered(sources["r1"])

-----------------------------------------------------------------------------
(* C14: two concurrent requests share no mutable state. Under every        *)
(* interleaving a step of one request leaves everything of the other       *)
(* request as it was; every source of a request was fetched by that        *)
(* request's own calls; and two requests with the same question, context,  *)
(* endpoint and external-call outcomes have the same source list, prompts  *)
(* and answer.                                                             *)
Local(r) ==
    <<pc[r], request[r], urls[r], results[r], idx[r], sources[r], url_context[r],
      search_context[r], user_content[r], system_prompt[r], out[r], calls[r],
      provider[r]>>

OwnSources(r) ==
    /\ Len(sources[r]) <= Len(Fetches(r))
    /\ \A n \in 1..Len(sources[r]) :
          \E i \in 1..Len(Fetches(r)) : Fetches(r)[i].url = sources[r][n].url

SameInputs(a, b) ==
    /\ request[a] = request[b]
    /\ calls[a] = calls[b]
    /\ provider[a] = provider[b]
    /\ pc[a] = pc[b]

SameOutputs(a, b) ==
    /\ sources[a] = sources[b]
    /\ user_content[a] = user_content[b]
    /\ system_prompt[a] = system_prompt[b]
    /\ out[a] = out[b]

C14_NoSharedState ==
    /\ [](\A r \in Reqs : OwnSources(r))
    /\ [](SameInputs("r1", "r2") => SameOutputs("r1", "r2"))
    /\ [][\E r \in Reqs : \A x \in Reqs \ {r} : Local(x)' = Local(x)]_vars

C14_Witness ==
    /\ pc["r1"] = "done" /\ pc["r2"] = "done"
    /\ ContainsUrl(request["r1"].question)
    /\ ~ContainsUrl(request["r2"].question)
    /\ sources["r1"] = <<[url |-> "http://a", title |-> "http://a"]>>
    /\ sources["r2"] = <<[url |-> "http://r1", title |-> "T1"]>>
    /\ Len(calls["r1"]) = 2 /\ Len(calls["r2"]) = 3

-----------------------------------------------------------------------------
(* C16 as stated: in search-grounded mode a result whose fetch failed and  *)
(* that has no snippet is dropped, so a successful answer ends with the    *)
(* citation block of the other results only.                               *)
AsSource(res) == [url |-> Get(res, "href", ""), title |-> Get(res, "title", "Untitled")]

FailedNoSnippet(r, i) ==
    /\ urls[r] = <<>>
    /\ i \in 1..Len(Fetches(r))
    /\ FetchFailed(Fetches(r)[i])
    /\ Get(results[r][i], "body", "") = ""

RECURSIVE KeptFrom(_, _)
(* the results from the i-th on without those the claim calls dropped *)
KeptFrom(r, i) ==
    IF i > Len(results[r]) THEN <<>>
    ELSE (IF FailedNoSnippet(r, i) THEN <<>> ELSE <<AsSource(results[r][i])>>)
         \o KeptFrom(r, i + 1)

C16_DroppedWhenNoSnippet ==
    \A r \in Reqs :
        (Succeeded(r) /\ urls[r] = <<>>)
        => Concat(out[r]) = MessageContent(provider[r].incs) \o Rendered(KeptFrom(r, 1))

(* C16, amended: such a result is not dropped. It is in the source list at *)
(* its rank, and a successful answer ends with a citation block whose item *)
(* at that rank is the result's title and url.                             *)
C16_CitedWithoutSnippet ==
    \A r \in Reqs :
        \A i \in 1..Len(Fetches(r)) :
            FailedNoSnippet(r, i)
            => /\ Len(sources[r]) >= i
               /\ sources[r][i] = AsSource(results[r][i])
               /\ Succeeded(r)
                  => Concat(out[r]) = MessageContent(provider[r].incs)
                        \o "\n\n**Sources:**\n"
                        \o Concat([k \in 1..Len(results[r]) |->
                                      CitationItem(AsSource(results[r][k]))])

C16_Witness ==
    /\ Succeeded("r1")
    /\ FailedNoSnippet("r1", 1)
    /\ Len(results["r1"]) = 1
    /\ Last(out["r1"]) = "\n\n**Sources:**\n- [Untitled](http://r2)\n"

(* C17: when the model is invoked, the user prompt it receives has an      *)
(* evidence block exactly if the source list is non-empty, and the system  *)
(* prompt it receives has the extra citation instruction exactly if the    *)
(* source list is non-empty.                                               *)
C17_AugmentedIffSources ==
    \A r \in Reqs :
        /\ pc[r] = "invoke"
           => /\ HasEvidenceBlock(user_content[r]) <=> sources[r] # <<>>
              /\ HasCitationInstruction(system_prompt[r]) <=> sources[r] # <<>>
        /\ \A i \in 1..Len(ModelCalls(r)) :
              /\ HasEvidenceBlock(ModelCalls(r)[i].user_content) <=> sources[r] # <<>>
              /\ HasCitationInstruction(ModelCalls(r)[i].system_prompt) <=> sources[r] # <<>>

C17_Witness ==
    /\ Len(ModelCalls("r1")) = 1
    /\ urls["r1"] # <<>>
    /\ \A i \in 1..Len(Fetches("r1")) : FetchFailed(Fetches("r1")[i])
    /\ sources["r1"] # <<>>
    /\ HasEvidenceBlock(ModelCalls("r1")[1].user_content)
    /\ HasCitationInstruction(ModelCalls("r1")[1].system_prompt)

-----------------------------------------------------------------------------
(* C18 as stated: in the finished user prompt there are as many numbered   *)
(* evidence paragraphs as sources, and for every n the paragraph numbered  *)
(* n has the url and title of the n-th source (the n-th citation item).    *)
Numbered(p) == p.t = "search_source"

(* the title an evidence paragraph shows: a URL paragraph shows its url *)
ParTitle(p) == IF p.t = "search_source" THEN p.title ELSE p.url

RECURSIVE WholeUrlEnd(_, _)
(* as HostEnd, with the characters of a path accepted as well *)
WholeUrlEnd(s, j) ==
    IF j <= Len(s) /\ (IsHostChar(s[j]) \/ s[j] = "/")
    THEN WholeUrlEnd(s, j + 1)
    ELSE IF j + 2 <= Len(s) /\ s[j] = "%" /\ s[j + 1] \in HexChars /\ s[j + 2] \in HexChars
         THEN WholeUrlEnd(s, j + 3)
         ELSE j

RECURSIVE WholeUrlsFrom(_, _)
WholeUrlsFrom(s, i) ==
    IF i > Len(s) THEN <<>>
    ELSE LET k == SchemeEnd(s, i)
             e == IF k = 0 THEN 0 ELSE IF HostEnd(s, k) > k THEN WholeUrlEnd(s, k) ELSE 0
         IN  IF e = 0 THEN WholeUrlsFrom(s, i + 1)
             ELSE <<Str(SubSeq(s, i, e - 1))>> \o WholeUrlsFrom(s, e)

WholeUrls(s) == WholeUrlsFrom(s, 1)

C19_WholeUrlWithPath ==
    \A r \in Reqs :
        (Started(r) /\ ContainsUrl(request[r].question))
        => /\ urls[r] = WholeUrls(request[r].question)
           /\ \A i \in 1..Len(Fetches(r)) :
                 Fetches(r)[i].url = WholeUrls(request[r].question)[i]
           /\ \A n \in 1..Len(sources[r]) :
                 \E i \in 1..Len(WholeUrls(request[r].question)) :
                     sources[r][n].url = WholeUrls(request[r].question)[i]

(* C20: the external calls of a request happen one after the other in      *)
(* source order: a step makes at most one call, the i-th fetch is of the   *)
(* i-th URL (of the i-th search result, after the one search), the model   *)
(* is called at most once, as the last call, and only when every URL (every *)
(* result) has been fetched.                                               *)
Targets(r) ==
    IF urls[r] # <<>> THEN urls[r]
    ELSE [i \in 1..Len(results[r]) |-> Get(results[r][i], "href", "")]

InSourceOrder(r) ==
    LET n == Len(Evidence(r))
        s == Len(Searches(r))
    IN  /\ Len(Fetches(r)) <= Len(Targets(r))
        /\ s = (IF Started(r) /\ urls[r] = <<>> /\ pc[r] # "search" THEN 1 ELSE 0)
        /\ \A i \in 1..s : calls[r][i].kind = "search"
        /\ \A i \in 1..Len(Fetches(r)) :
              /\ calls[r][s + i] = Fetches(r)[i]
              /\ Fetches(r)[i].pos = i
              /\ Fetches(r)[i].url = Targets(r)[i]
        /\ Len(ModelCalls(r)) <= 1
        /\ ModelCalls(r) # <<>>
           => /\ Last(calls[r]).kind = "model"
              /\ Len(Fetches(r)) = Len(Targets(r))
        /\ Gathering(r) => ModelCalls(r) = <<>>

OneCallPerStep(r) ==
    \/ calls[r]' = calls[r]
    \/ \E c \in {Last(calls[r]')} : calls[r]' = Append(calls[r], c)

C20_SequentialInSourceOrder ==
    /\ [](\A r \in Reqs : InSourceOrder(r))
    /\ [][\A r \in Reqs : OneCallPerStep(r)]_vars

C20_Witness ==
    /\ pc["r1"] = "done"
    /\ Len(calls["r1"]) = 4
    /\ [i \in 1..4 |-> calls["r1"][i].kind] = <<"search", "fetch", "fetch", "model">>
    /\ calls["r1"][2].url = "http://r2"
    /\ calls["r1"][3].url = "http://r1"

-----------------------------------------------------------------------------
(* C15: after update_user has set the avatar of an existing user to a,     *)
(* get_user returns a for that user until another avatar update for that   *)
(* user is applied. That is: a successful update_user with an avatar       *)
(* leaves that avatar in the user's row; the avatar of a row changes only  *)
(* in a step that is a successful avatar update for that user, and a row   *)
(* is never removed; and get_user answers with the avatar of the row.      *)
AvatarSet(rsp, id) ==
    /\ rsp.op \in {"update_user", "upload_avatar", "google_auth"}
    /\ rsp.id = id
    /\ rsp.code = 200
    /\ rsp.set # None

UpdateStored ==
    (resp.op = "update_user" /\ resp.status = "success" /\ resp.set # None)
    => /\ resp.id \in DOMAIN users
       /\ users[resp.id].avatar = resp.set
       /\ resp.avatar = resp.set

GetReturnsStored ==
    resp.op = "get_user"
    => IF resp.id \in DOMAIN users
       THEN resp.code = 200 /\ resp.avatar = users[resp.id].avatar
       ELSE resp.code = 404

AvatarKept ==
    \A id \in DOMAIN users :
        /\ id \in DOMAIN users'
        /\ users'[id].avatar # users[id].avatar
           => AvatarSet(resp', id) /\ users'[id].avatar = resp'.set

C15_AvatarPersists ==
    /\ [](UpdateStored /\ GetReturnsStored)
    /\ [][AvatarKept]_vars

C15_Witness ==
    /\ resp.op = "get_user"
    /\ resp.id \in NewIds
    /\ resp.code = 200
    /\ resp.avatar = "a1"
    /\ users[resp.id].email \in Emails
    /\ users[resp.id].name = "User"

-----------------------------------------------------------------------------
(* C21: size budgets hold for every request: the text the content fetcher  *)
(* returned is at most 8000 characters, an excerpt in the prompt is at     *)
(* most 3000 characters in URL-grounded mode, and an excerpt of fetched    *)
(* text is at most 2500 characters in search-grounded mode.                *)
Returns(r) ==
    [i \in 1..Len(Fetches(r)) |->
        fetch_url_content(Fetches(r)[i].url, Fetches(r)[i].outcome)]

ExcerptsWithin(parts) ==
    \A k \in 1..Len(parts) :
        /\ parts[k].t = "url_source" => parts[k].content.len <= 3000
        /\ (parts[k].t = "search_source" /\ parts[k].label = "Content")
           => parts[k].content.len <= 2500

C21_SizeBudgets ==
    \A r \in Reqs :
        /\ \A i \in 1..Len(Fetches(r)) :
              ~Returns(r)[i].raised => Returns(r)[i].value.len <= 8000
        /\ ExcerptsWithin(url_context[r])
        /\ ExcerptsWithin(search_context[r])
        /\ ExcerptsWithin(user_content[r])

(* C22: prompt assembly is deterministic. Two runs with the same question, *)
(* the same prior context and the same evidence outcomes in the same order *)
(* have the same system prompt, user prompt and source list, whichever     *)
(* endpoint served them and whatever the model did.                        *)
SameEvidence(a, b) ==
    /\ request[a].question = request[b].question
    /\ request[a].chatContext = request[b].chatContext
    /\ Len(Evidence(a)) = Len(Evidence(b))
    /\ \A i \in 1..Len(Evidence(a)) : Evidence(a)[i].outcome = Evidence(b)[i].outcome

C23_NotConfigured ==
    \A r \in Reqs :
        ~client
        => /\ ModelCalls(r) = <<>>
           /\ pc[r] # "streaming"
           /\ pc[r] \in {"idle", "url_loop", "search", "result_loop", "invoke"} => out[r] = <<>>
           /\ pc[r] \in {"invoke", "done"}
              => /\ Len(Fetches(r)) = Len(Targets(r))
                 /\ Len(Searches(r)) = (IF urls[r] = <<>> THEN 1 ELSE 0)
                 /\ Len(sources[r]) = Len(Targets(r))
           /\ pc[r] = "done" => out[r] = <<ConfigError>>

C23_Witness ==
    /\ ~client
    /\ pc["r1"] = "done"
    /\ request["r1"].stream
    /\ Len(sources["r1"]) = 2
    /\ Len(calls["r1"]) = 3
    /\ out["r1"] = <<"Error: OpenAI API key not configured. Please set OPENAI_API_KEY in your .env file.">>

(* C24: when the model provider fails, batch mode returns the error string *)
(* alone, streaming mode has yielded the non-null increments so far in     *)
(* provider order and then exactly one error fragment, and neither has a   *)
(* citation block; while a stream runs, what has been yielded is the       *)
(* non-null increments in provider order.                                  *)
C24_ModelFailure ==
    \A r \in Reqs :
        /\ (pc[r] = "done" /\ provider[r].failed)
           => /\ Len(ModelCalls(r)) = 1
              /\ IF request[r].stream
                 THEN out[r] = Delivered(provider[r].incs)
                                 \o <<"Error calling OpenAI: " \o provider[r].err>>
                 ELSE out[r] = <<"Error calling OpenAI: " \o provider[r].err>>
        /\ pc[r] = "streaming" => out[r] = Delivered(provider[r].incs)

C24_Witness ==
    /\ pc["r1"] = "done"
    /\ provider["r1"].failed
    /\ request["r1"].stream
    /\ sources["r1"] # <<>>
    /\ Len(provider["r1"].incs) = 2
    /\ provider["r1"].incs[1].isNone
    /\ out["r1"] = <<"A", "Error calling OpenAI: Connection error.">>

-----------------------------------------------------------------------------
(* C27: after any sequence of register, google_auth and sync_user calls no *)
(* two rows of `users` have the same email: a call that would create a     *)
(* user with an email that is taken is answered with an error and leaves   *)
(* the table as it was.                                                    *)
EmailsUnique ==
    \A a, b \in DOMAIN users : users[a].email = users[b].email => a = b

Creates(rsp) == rsp.op \in {"register", "google_auth", "sync_user"}

C27_UniqueEmail ==
    /\ []EmailsUnique
    /\ [][Creates(resp') => \A id \in DOMAIN users' \ DOMAIN users :
                               ByEmail(users, users'[id].email) = {}]_vars
    /\ [][(Creates(resp') /\ resp'.code # 200) => users' = users]_vars

C27_Witness ==
    /\ resp.op = "sync_user"
    /\ resp.code = 500
    /\ resp.id = "user-sync"
    /\ resp.id \notin DOMAIN users
    /\ \E id \in NewIds : id \in DOMAIN users /\ users[id].email \in Emails
    /\ Cardinality(DOMAIN users) = 3

-----------------------------------------------------------------------------
(* C25: under every interleaving of add_reaction and remove_reaction calls *)
(* there is at most one stored reaction per (message, user, emoji); an     *)
(* add_reaction that finds the triple answers "exists" with the id of the  *)
(* stored row and changes nothing; and no add_reaction ends in an          *)
(* unhandled error.                                                        *)
OnePerTriple ==
    \A x, y \in message_reactions :
        (x.message_id = y.message_id /\ x.user_id = y.user_id /\ x.emoji = y.emoji)
        => x = y

AnswersExists(t) ==
    (th'[t] # th[t] /\ th'[t].op = "add_reaction" /\ th'[t].status = "exists")
    => /\ message_reactions' = message_reactions
       /\ \E x \in ReactionsOf(message_reactions, th'[t].message_id, th'[t].user_id,
                               th'[t].emoji) : x.id = th'[t].id

C25_ReactionsUnique ==
    /\ []OnePerTriple
    /\ [][\A t \in Threads : AnswersExists(t)]_vars
    /\ [](\A t \in Threads : th[t].pc # "error")

(* C26: a reset token changes a password at most once. A reset_password    *)
(* that starts when its token has been used is rejected and leaves the     *)
(* passwords as they are, and two reset_password calls with the same token *)
(* do not both succeed.                                                    *)
ResetOk(t, token) ==
    /\ th[t].op = "reset_password"
    /\ th[t].pc = "done"
    /\ th[t].status = "success"
    /\ th[t].id = token

UsedIsRejected(t) ==
    ( /\ Free(t)
      /\ th'[t] # th[t]
      /\ th'[t].op = "reset_password"
      /\ th'[t].id \in DOMAIN password_resets
      /\ password_resets[th'[t].id].used_at # None )
    => /\ th'[t].status = "Invalid or expired reset token"
       /\ users' = users

C26_TokenUsedOnce ==
    /\ [][\A t \in Threads : UsedIsRejected(t)]_vars
    /\ [](\A token \in DOMAIN password_resets : ~(ResetOk("t1", token) /\ ResetOk("t2", token)))

-----------------------------------------------------------------------------
(* C28: after any sequence of create_dm, create_group and accept_invitation *)
(* calls, two distinct users are together in at most one group of type     *)
(* "dm", and a create_dm for the two, in either order, returns that group  *)
(* whenever it exists.                                                     *)
DmsOf(a, b) ==
    {g \in DOMAIN groups :
        /\ groups[g].type = "dm"
        /\ Member(g, a) \in group_members
        /\ Member(g, b) \in group_members}

C28_OneDmPerPair ==
    /\ \A a, b \in {"user-1", "user-2", "ai-agent"} :
          a # b => Cardinality(DmsOf(a, b)) <= 1
    /\ ( /\ gresp.op = "create_dm"
         /\ gresp.code = 200
         /\ gresp.user_id # gresp.user2_id
         /\ DmsOf(gresp.user_id, gresp.user2_id) # {} )
       => gresp.group_id \in DmsOf(gresp.user_id, gresp.user2_id)

(* C29: delete_group(g) leaves no group_members, messages or threads row   *)
(* of g; from then on g is never a group again, no membership row of g     *)
(* exists, and accept_invitation with a token issued for g answers 404     *)
(* "Group not found".                                                      *)
Issued == {"group-1"} \cup {uuid4(n) : n \in 1..uuid}

Gone(g) ==
    /\ g \notin DOMAIN groups
    /\ OfGroup(group_members, g) = {}

DeleteLeavesNothing ==
    gresp.op = "delete_group"
    => /\ Gone(gresp.group_id)
       /\ OfGroup(messages, gresp.group_id) = {}
       /\ OfGroup(threads, gresp.group_id) = {}

AcceptOfGone ==
    ( /\ gresp.op = "accept_invitation"
      /\ gresp.token \in DOMAIN invitations
      /\ invitations[gresp.token].group_id \notin DOMAIN groups )
    => /\ gresp.code = 404
       /\ gresp.detail = "Group not found"

C29_DeleteGroup ==
    /\ [](DeleteLeavesNothing /\ AcceptOfGone)
    /\ [][\A g \in Issued : Gone(g) => Gone(g)']_vars

C29_Witness ==
    /\ gresp.op = "accept_invitation"
    /\ gresp.code = 404
    /\ gresp.token \in DOMAIN invitations
    /\ invitations[gresp.token].group_id = "group-1"
    /\ "group-1" \notin DOMAIN groups
    /\ OfGroup(threads, "group-1") = {}
    /\ uuid = 2

(* C30 as stated: accepting a token of the invitations table always        *)
(* succeeds and leaves the (group, user) membership row; a token that is   *)
(* not in the table is rejected.                                           *)
C30_AcceptAlwaysSucceeds ==
    gresp.op = "accept_invitation"
    => IF gresp.token \in DOMAIN invitations
       THEN /\ gresp.code = 200
            /\ Member(invitations[gresp.token].group_id, gresp.user_id) \in group_members
       ELSE gresp.code = 400

(* C30, amended: accepting a token whose group exists succeeds every time  *)
(* and leaves the one (group, user) membership row, adding it only if it   *)
(* is not there; a token whose group does not exist is answered 404 and an *)
(* unknown token 400, both with the tables unchanged; and no step changes  *)
(* or removes a row of invitations.                                        *)
AcceptAnswer ==
    gresp.op = "accept_invitation"
    => IF gresp.token \notin DOMAIN invitations THEN gresp.code = 400
       ELSE IF invitations[gresp.token].group_id \notin DOMAIN groups THEN gresp.code = 404
       ELSE /\ gresp.code = 200
            /\ gresp.group_id = invitations[gresp.token].group_id
            /\ Member(gresp.group_id, gresp.user_id) \in group_members

AcceptEffect ==
    gresp'.op = "accept_invitation"
    => /\ UNCHANGED <<groups, messages, threads>>
       /\ IF gresp'.code = 200
          THEN group_members' = group_members \cup {Member(gresp'.group_id, gresp'.user_id)}
          ELSE group_members' = group_members

TokensKept ==
    \A k \in DOMAIN invitations :
        k \in DOMAIN invitations' /\ invitations'[k] = invitations[k]

C30_AcceptIdempotent ==
    /\ []AcceptAnswer
    /\ [][AcceptEffect /\ TokensKept]_vars

C30_Witness ==
    /\ gresp.op = "accept_invitation"
    /\ gresp.code = 200
    /\ gresp.user_id = "ai-agent"
    /\ gresp.group_id = "group-1"
    /\ OfGroup(group_members, "group-1") =
          {Member("group-1", "user-1"), Member("group-1", "ai-agent")}
    /\ invitations[gresp.token].expires_at = None

====
